---- MODULE Spec2Model ----
(***************************************************************************)
(* The OTP-gated password-reset handshake of src/main.py:                  *)
(* request_password_otp_and_code (the initiator) and                       *)
(* verify_otp_and_get_code (the verifier), sharing one Redis cache whose   *)
(* entries expire, with an identity provider and an email sender as        *)
(* collaborators that may fault.  Every collaborator call of a handler is  *)
(* one atomic step; calls of different requests interleave freely and the  *)
(* clock may advance between any two steps.                                *)
(***************************************************************************)
EXTENDS Integers, Sequences, FiniteSets, TLC

(* ----------------------------- bounds --------------------------------- *)
\* number of HTTP calls of one run (each call slot runs one handler once)
NumCalls == 3
\* number of calls that may be in flight at the same time
MaxInFlight == 2
\* seconds by which one step of the clock advances
TickSeconds == 300

(* ------------------------ program constants --------------------------- *)
OTP_EXPIRY_SECONDS == 10 * 60
REDIS_OTP_PREFIX == "otp_reset:"
REDIS_OOB_PREFIX == "oob_reset:"
\* generate_otp(length=4)
OtpLength == 4
\* len(request.password) < 6
PasswordMinLength == 6

HTTP_200_OK == 200
HTTP_400_BAD_REQUEST == 400
HTTP_404_NOT_FOUND == 404
HTTP_500_INTERNAL_SERVER_ERROR == 500

(* --------------------------- input domains ---------------------------- *)
Procs == 1..NumCalls

\* the addresses that calls are made for; only the first has an account
Emails == {"user@example.com", "nobody@example.com"}
Accounts == {"user@example.com"}

\* a Python str is a sequence of characters
Digits == {"0", "1", "2", "3", "4", "5", "6", "7", "8", "9"}
\* the codes random.choices is let to draw, and the codes a client submits
SampleCodes == { <<"4", "8", "2", "1">>, <<"0", "0", "0", "7">> }

OobParam == <<"o", "o", "b", "C", "o", "d", "e", "=">>
\* the identity provider mints a fresh token for every call: the token of the
\* p-th call
Tokens == <<"K", "J", "H", "G", "F">>
Token(p) == <<Tokens[p]>>
\* the links the identity provider is let to return to the p-th call: the
\* token followed by another parameter, the token at the end of the link, an
\* empty token, no token
Links(p) ==
  { <<"?">> \o OobParam \o Token(p) \o <<"&", "l">>,
    <<"?", "l", "&">> \o OobParam \o Token(p),
    <<"?">> \o OobParam \o <<"&", "l">>,
    <<"?", "l", "=", "v">> }

(* --------------------------- pure functions --------------------------- *)
\* str.find(sub, start): the lowest 0-based index >= start at which sub
\* occurs in s, or -1
RECURSIVE FindFrom(_, _, _)
FindFrom(s, sub, start) ==
  IF start + Len(sub) > Len(s) THEN -1
  ELSE IF SubSeq(s, start + 1, start + Len(sub)) = sub THEN start
  ELSE FindFrom(s, sub, start + 1)

\* (mutant) the -1 of a failed search for "&" is used as the end of the slice
ExtractOobCodeSlicesToMinusOne(link) ==
  IF FindFrom(link, OobParam, 0) = -1 THEN <<>>
  ELSE LET oob_code_start == FindFrom(link, OobParam, 0) + Len(OobParam)
           oob_code_end == FindFrom(link, <<"&">>, oob_code_start)
       IN  SubSeq(link, oob_code_start + 1,
                  IF oob_code_end # -1 THEN oob_code_end ELSE Len(link) - 1)

\* the extraction of lines 151-157: the token, or <<>> when the ValueError
\* of line 152 or of line 157 is raised
ExtractOobCode(link) ==
  IF FindFrom(link, OobParam, 0) = -1 THEN <<>>
  ELSE LET oob_code_start == FindFrom(link, OobParam, 0) + Len(OobParam)
           oob_code_end == FindFrom(link, <<"&">>, oob_code_start)
       IN  SubSeq(link, oob_code_start + 1,
                  IF oob_code_end # -1 THEN oob_code_end ELSE Len(link))

\* generate_otp: the strings of `length` digits (those of the sample)
generate_otp(length) ==
  { c \in SampleCodes : Len(c) = length /\ \A i \in 1..Len(c) : c[i] \in Digits }

(* ----------------- update_user_info: the request body ----------------- *)
\* Optional[T]: None is <<>>, a value v is <<v>>
None == <<>>
Some(v) == <<v>>
IsNotNone(x) == Len(x) # 0
\* an HttpUrl is an object, str() of it is its text
HttpUrl(text) == [url |-> text]
Str(u) == u.url
Uids == {"uid-1", "uid-gone"}
SamplePasswords == { <<>>, <<"a", "b", "c", "d", "e">>, <<"a", "b", "c", "d", "e", "f">> }
\* UserUpdateRequest: each of the six fields is None or one of a few values
UserUpdateRequests ==
  [ displayName : {None, Some(""), Some("An")},
    email : {None, Some("new@example.com")},
    password : {None} \cup { Some(w) : w \in SamplePasswords },
    photoURL : {None, Some(HttpUrl("https://example.com/a.png"))},
    disabled : {None, Some(TRUE), Some(FALSE)},
    emailVerified : {None, Some(TRUE), Some(FALSE)} ]
NoFields ==
  [ displayName |-> None, email |-> None, password |-> None, photoURL |-> None,
    disabled |-> None, emailVerified |-> None ]
\* a dict, and d[k] = v on it
EmptyDict == [k \in {} |-> None]
Put(d, k, v) == [x \in DOMAIN d \cup {k} |-> IF x = k THEN v ELSE d[x]]

\* (mutant) the two flags are taken when they are true, not when they are given
UpdatePayloadOfTrueFlags(request) ==
  LET d1 == IF IsNotNone(request.displayName)
            THEN Put(EmptyDict, "display_name", request.displayName[1]) ELSE EmptyDict
      d2 == IF IsNotNone(request.email) THEN Put(d1, "email", request.email[1]) ELSE d1
      d3 == IF IsNotNone(request.password)
            THEN Put(d2, "password", request.password[1]) ELSE d2
      d4 == IF IsNotNone(request.photoURL)
            THEN Put(d3, "photo_url", Str(request.photoURL[1])) ELSE d3
      d5 == IF IsNotNone(request.disabled) /\ request.disabled[1]
            THEN Put(d4, "disabled", request.disabled[1]) ELSE d4
  IN  IF IsNotNone(request.emailVerified) /\ request.emailVerified[1]
      THEN Put(d5, "email_verified", request.emailVerified[1]) ELSE d5

\* lines 294-311, when line 304 does not raise: the keyword arguments
UpdatePayload(request) ==
  LET d1 == IF IsNotNone(request.displayName)
            THEN Put(EmptyDict, "display_name", request.displayName[1]) ELSE EmptyDict
      d2 == IF IsNotNone(request.email) THEN Put(d1, "email", request.email[1]) ELSE d1
      d3 == IF IsNotNone(request.password)
            THEN Put(d2, "password", request.password[1]) ELSE d2
      d4 == IF IsNotNone(request.photoURL)
            THEN Put(d3, "photo_url", Str(request.photoURL[1])) ELSE d3
      d5 == IF IsNotNone(request.disabled)
            THEN Put(d4, "disabled", request.disabled[1]) ELSE d4
  IN  IF IsNotNone(request.emailVerified)
      THEN Put(d5, "email_verified", request.emailVerified[1]) ELSE d5
\* lines 302-304
PasswordTooShort(request) ==
  IsNotNone(request.password) /\ Len(request.password[1]) < PasswordMinLength

(* ------------------------------ the cache ----------------------------- *)
Key(prefix, e) == <<prefix, e>>
OtpKey(e) == Key(REDIS_OTP_PREFIX, e)
OobKey(e) == Key(REDIS_OOB_PREFIX, e)
Keys == { Key(pre, e) : pre \in {REDIS_OTP_PREFIX, REDIS_OOB_PREFIX}, e \in Emails }

\* a stored entry is its value and the seconds it has left; a key that is
\* not there reads as None, the empty value
Absent == [val |-> <<>>, ttl |-> 0]

\* (mutant) a setex that does not overwrite a key that is there
SetexIfAbsent(store, key, seconds, value) ==
  IF store[key] # Absent THEN store
  ELSE [store EXCEPT ![key] = [val |-> value, ttl |-> seconds]]

\* (mutant) a setex that takes the seconds for minutes
SetexMinutes(store, key, seconds, value) ==
  [store EXCEPT ![key] = [val |-> value, ttl |-> seconds \div 60]]

\* redis_client.setex(key, seconds, value)
Setex(store, key, seconds, value) ==
  [store EXCEPT ![key] = [val |-> value, ttl |-> seconds]]

\* redis_client.get(key): the value, or <<>> (None) for a key that is not there
Get(store, key) == store[key].val

\* (mutant) a delete that leaves the key
DeleteKeepsKey(store, key) == store

\* redis_client.delete(key)
Delete(store, key) == [store EXCEPT ![key] = Absent]

\* (mutant) a cache that keeps the entries whose time is up
ExpireKeepsEntries(store, d) ==
  [k \in Keys |-> IF store[k].ttl > d THEN [store[k] EXCEPT !.ttl = @ - d]
                  ELSE store[k]]

\* the cache after d seconds: an entry whose time is up is gone
Expire(store, d) ==
  [k \in Keys |-> IF store[k].ttl > d THEN [store[k] EXCEPT !.ttl = @ - d]
                  ELSE Absent]

\* the record of the last setex of a key, d seconds later
Never == [by |-> 0, age |-> 0]
Older(l, d) ==
  IF l.by = 0 THEN l
  ELSE [l EXCEPT !.age = IF @ + d > OTP_EXPIRY_SECONDS THEN OTP_EXPIRY_SECONDS ELSE @ + d]

VARIABLES
  redis,               \* the cache: key -> entry
  lastset,             \* key -> the call whose setex of the key came last (0: none)
                       \*        and the seconds gone by since, capped at the expiry
  outbox,              \* the emails sent: [to, otp]
  pc,                  \* call -> the step the call is at
  handler,             \* call -> "request" | "verify" | ""
  email,               \* call -> request.email
  submitted_otp,       \* call -> request.otp of a verify call
  link_returned,       \* call -> the link the identity provider returned to the
                       \*         request call, while the call is at lines 150-162
  otp,                 \* call -> the code generated by a request call
  oob_code,            \* call -> the token extracted by a request call
  stored_otp,          \* call -> what the verify call read under the otp key
  oob_code_to_return,  \* call -> what the verify call read under the oob key
  resp,                \* call -> the HTTP response
  log,                 \* call -> the collaborator calls it has made, in order
  upd_pc,              \* the step the update_user_info call is at
  user_uid,            \* update_user_info: the path parameter
  update_request,      \* update_user_info: the request body
  update_payload,      \* update_user_info: the keyword arguments built
  update_calls,        \* the calls of auth.update_user made: [uid, fields]
  update_resp          \* update_user_info: the status of the HTTP response

resetvars == <<redis, lastset, outbox, pc, handler, email, submitted_otp, link_returned,
               otp, oob_code, stored_otp, oob_code_to_return, resp, log>>
updvars == <<upd_pc, user_uid, update_request, update_payload, update_calls, update_resp>>
vars == <<resetvars, updvars>>

NoResp == [status |-> 0, detail |-> "", oobCode |-> <<>>]
Op(name, ok) == [op |-> name, ok |-> ok]

Init ==
  /\ redis = [k \in Keys |-> Absent]
  /\ lastset = [k \in Keys |-> Never]
  /\ outbox = {}
  /\ pc = [p \in Procs |-> "idle"]
  /\ handler = [p \in Procs |-> ""]
  /\ email = [p \in Procs |-> ""]
  /\ submitted_otp = [p \in Procs |-> <<>>]
  /\ link_returned = [p \in Procs |-> <<>>]
  /\ otp = [p \in Procs |-> <<>>]
  /\ oob_code = [p \in Procs |-> <<>>]
  /\ stored_otp = [p \in Procs |-> <<>>]
  /\ oob_code_to_return = [p \in Procs |-> <<>>]
  /\ resp = [p \in Procs |-> NoResp]
  /\ log = [p \in Procs |-> <<>>]
  /\ upd_pc = "idle"
  /\ user_uid = ""
  /\ update_request = NoFields
  /\ update_payload = EmptyDict
  /\ update_calls = <<>>
  /\ update_resp = 0

InFlight == { p \in Procs : pc[p] \notin {"idle", "done"} }

\* a call arrives: calls take the slots in order, at most `limit` at a time
Arrives(p, limit) ==
  /\ pc[p] = "idle"
  /\ IF p = 1 THEN TRUE ELSE pc[p - 1] # "idle"
  /\ Cardinality(InFlight) < limit

\* raise HTTPException(status_code, detail) / return {...}
Respond(p, status, detail, body) ==
  /\ pc' = [pc EXCEPT ![p] = "done"]
  /\ resp' = [resp EXCEPT ![p] = [status |-> status, detail |-> detail, oobCode |-> body]]

Logged(p, name, ok) == log' = [log EXCEPT ![p] = Append(@, Op(name, ok))]

(* ------------------ request_password_otp_and_code --------------------- *)
\* lines 139-147: the call arrives and looks the account up
GetUserByEmail(p, e, limit) ==
  /\ Arrives(p, limit)
  /\ handler' = [handler EXCEPT ![p] = "request"]
  /\ email' = [email EXCEPT ![p] = e]
  /\ \/ /\ e \in Accounts
        /\ Logged(p, "get_user_by_email", TRUE)
        /\ pc' = [pc EXCEPT ![p] = "mint"]
        /\ UNCHANGED resp
     \/ /\ e \notin Accounts
        /\ Logged(p, "get_user_by_email", FALSE)
        /\ Respond(p, HTTP_404_NOT_FOUND, "UserNotFound", <<>>)
     \/ /\ Logged(p, "get_user_by_email", FALSE)
        /\ Respond(p, HTTP_500_INTERNAL_SERVER_ERROR, "LookupFault", <<>>)
  /\ UNCHANGED <<redis, lastset, outbox, submitted_otp, otp, oob_code, stored_otp,
                 oob_code_to_return>>
  /\ UNCHANGED link_returned
  /\ UNCHANGED updvars

\* (mutant) the code is stored before the extracted token is checked
GeneratePasswordResetLinkStoresFirst(p) ==
  /\ pc[p] = "mint"
  /\ \/ \E link \in Links(p), code \in generate_otp(OtpLength) :
          /\ Logged(p, "generate_password_reset_link", TRUE)
          /\ link_returned' = [link_returned EXCEPT ![p] = link]
          /\ redis' = Setex(redis, OtpKey(email[p]), OTP_EXPIRY_SECONDS, code)
          /\ lastset' = [lastset EXCEPT ![OtpKey(email[p])] = [by |-> p, age |-> 0]]
          /\ IF ExtractOobCode(link) = <<>>
             THEN /\ Respond(p, HTTP_500_INTERNAL_SERVER_ERROR, "MintFault", <<>>)
                  /\ UNCHANGED <<otp, oob_code>>
             ELSE /\ oob_code' = [oob_code EXCEPT ![p] = ExtractOobCode(link)]
                  /\ otp' = [otp EXCEPT ![p] = code]
                  /\ pc' = [pc EXCEPT ![p] = "setex_otp"]
                  /\ UNCHANGED resp
     \/ /\ Logged(p, "generate_password_reset_link", FALSE)
        /\ UNCHANGED link_returned
        /\ Respond(p, HTTP_500_INTERNAL_SERVER_ERROR, "MintFault", <<>>)
        /\ UNCHANGED <<redis, lastset, otp, oob_code>>
  /\ UNCHANGED <<outbox, handler, email, submitted_otp, stored_otp,
                 oob_code_to_return>>
  /\ UNCHANGED updvars

\* lines 149-162: mint the link, extract the token, draw the code
GeneratePasswordResetLink(p) ==
  /\ pc[p] = "mint"
  /\ \/ \E link \in Links(p), code \in generate_otp(OtpLength) :
          /\ Logged(p, "generate_password_reset_link", TRUE)
          /\ link_returned' = [link_returned EXCEPT ![p] = link]
          /\ IF ExtractOobCode(link) = <<>>
             THEN /\ Respond(p, HTTP_500_INTERNAL_SERVER_ERROR, "MintFault", <<>>)
                  /\ UNCHANGED <<otp, oob_code>>
             ELSE /\ oob_code' = [oob_code EXCEPT ![p] = ExtractOobCode(link)]
                  /\ otp' = [otp EXCEPT ![p] = code]
                  /\ pc' = [pc EXCEPT ![p] = "setex_otp"]
                  /\ UNCHANGED resp
     \/ /\ Logged(p, "generate_password_reset_link", FALSE)
        /\ UNCHANGED link_returned
        /\ Respond(p, HTTP_500_INTERNAL_SERVER_ERROR, "MintFault", <<>>)
        /\ UNCHANGED <<otp, oob_code>>
  /\ UNCHANGED <<redis, lastset, outbox, handler, email, submitted_otp, stored_otp,
                 oob_code_to_return>>
  /\ UNCHANGED updvars

\* (mutant) a faulted write of the code is tried a second time
SetexOtpRetries(p) ==
  /\ pc[p] = "setex_otp"
  /\ \/ /\ redis' = Setex(redis, OtpKey(email[p]), OTP_EXPIRY_SECONDS, otp[p])
        /\ lastset' = [lastset EXCEPT ![OtpKey(email[p])] = [by |-> p, age |-> 0]]
        /\ Logged(p, "setex_otp", TRUE)
        /\ pc' = [pc EXCEPT ![p] = "setex_oob"]
        /\ UNCHANGED resp
     \/ /\ Logged(p, "setex_otp", FALSE)
        /\ IF \E i \in 1..Len(log[p]) : log[p][i].op = "setex_otp"
           THEN Respond(p, HTTP_500_INTERNAL_SERVER_ERROR, "StoreFault", <<>>)
           ELSE UNCHANGED <<pc, resp>>
        /\ UNCHANGED <<redis, lastset>>
  /\ UNCHANGED <<outbox, handler, email, submitted_otp, otp, oob_code, stored_otp,
                 oob_code_to_return>>
  /\ link_returned' = [link_returned EXCEPT ![p] = <<>>]
  /\ UNCHANGED updvars

\* line 169 (and 173-175 when it faults)
SetexOtp(p) ==
  /\ pc[p] = "setex_otp"
  /\ \/ /\ redis' = Setex(redis, OtpKey(email[p]), OTP_EXPIRY_SECONDS, otp[p])
        /\ lastset' = [lastset EXCEPT ![OtpKey(email[p])] = [by |-> p, age |-> 0]]
        /\ Logged(p, "setex_otp", TRUE)
        /\ pc' = [pc EXCEPT ![p] = "setex_oob"]
        /\ UNCHANGED resp
     \/ /\ Logged(p, "setex_otp", FALSE)
        /\ Respond(p, HTTP_500_INTERNAL_SERVER_ERROR, "StoreFault", <<>>)
        /\ UNCHANGED <<redis, lastset>>
  /\ UNCHANGED <<outbox, handler, email, submitted_otp, otp, oob_code, stored_otp,
                 oob_code_to_return>>
  \* the link is not read after line 155: the record of it goes with this step
  /\ link_returned' = [link_returned EXCEPT ![p] = <<>>]
  /\ UNCHANGED updvars

\* (mutant) a fault of the second write is swallowed and the email is sent
SetexOobFaultIgnored(p) ==
  /\ pc[p] = "setex_oob"
  /\ \/ /\ redis' = Setex(redis, OobKey(email[p]), OTP_EXPIRY_SECONDS, oob_code[p])
        /\ lastset' = [lastset EXCEPT ![OobKey(email[p])] = [by |-> p, age |-> 0]]
        /\ Logged(p, "setex_oob", TRUE)
     \/ /\ Logged(p, "setex_oob", FALSE)
        /\ UNCHANGED <<redis, lastset>>
  /\ pc' = [pc EXCEPT ![p] = "send"]
  /\ UNCHANGED <<outbox, handler, email, submitted_otp, otp, oob_code, stored_otp,
                 oob_code_to_return, resp>>
  /\ UNCHANGED link_returned
  /\ UNCHANGED updvars

\* line 171 (and 173-175 when it faults)
SetexOob(p) ==
  /\ pc[p] = "setex_oob"
  /\ \/ /\ redis' = Setex(redis, OobKey(email[p]), OTP_EXPIRY_SECONDS, oob_code[p])
        /\ lastset' = [lastset EXCEPT ![OobKey(email[p])] = [by |-> p, age |-> 0]]
        /\ Logged(p, "setex_oob", TRUE)
        /\ pc' = [pc EXCEPT ![p] = "send"]
        /\ UNCHANGED resp
     \/ /\ Logged(p, "setex_oob", FALSE)
        /\ Respond(p, HTTP_500_INTERNAL_SERVER_ERROR, "StoreFault", <<>>)
        /\ UNCHANGED <<redis, lastset>>
  /\ UNCHANGED <<outbox, handler, email, submitted_otp, otp, oob_code, stored_otp,
                 oob_code_to_return>>
  /\ UNCHANGED link_returned
  /\ UNCHANGED updvars

\* lines 178-179 and 185 (send_email_with_otp_gmail, lines 115-134)
SendEmail(p) ==
  /\ pc[p] = "send"
  /\ \/ /\ outbox' = outbox \cup {[to |-> email[p], otp |-> otp[p]]}
        /\ Logged(p, "send_email", TRUE)
        /\ Respond(p, HTTP_200_OK, "Sent", <<>>)
     \/ /\ Logged(p, "send_email", FALSE)
        /\ pc' = [pc EXCEPT ![p] = "rollback_otp"]
        /\ UNCHANGED <<outbox, resp>>
  /\ UNCHANGED <<redis, lastset, handler, email, submitted_otp, otp, oob_code, stored_otp,
                 oob_code_to_return>>
  /\ UNCHANGED link_returned
  /\ UNCHANGED updvars

\* line 181: a RedisError here is caught by nobody and ends the call with
\* the framework's 500
RollbackDeleteOtp(p) ==
  /\ pc[p] = "rollback_otp"
  /\ \/ /\ redis' = Delete(redis, OtpKey(email[p]))
        /\ Logged(p, "delete_otp", TRUE)
        /\ pc' = [pc EXCEPT ![p] = "rollback_oob"]
        /\ UNCHANGED resp
     \/ /\ Logged(p, "delete_otp", FALSE)
        /\ Respond(p, HTTP_500_INTERNAL_SERVER_ERROR, "Unhandled", <<>>)
        /\ UNCHANGED redis
  /\ UNCHANGED <<lastset, outbox, handler, email, submitted_otp, otp, oob_code, stored_otp,
                 oob_code_to_return>>
  /\ UNCHANGED link_returned
  /\ UNCHANGED updvars

\* lines 182-183
RollbackDeleteOob(p) ==
  /\ pc[p] = "rollback_oob"
  /\ \/ /\ redis' = Delete(redis, OobKey(email[p]))
        /\ Logged(p, "delete_oob", TRUE)
        /\ Respond(p, HTTP_500_INTERNAL_SERVER_ERROR, "EmailFault", <<>>)
     \/ /\ Logged(p, "delete_oob", FALSE)
        /\ Respond(p, HTTP_500_INTERNAL_SERVER_ERROR, "Unhandled", <<>>)
        /\ UNCHANGED redis
  /\ UNCHANGED <<lastset, outbox, handler, email, submitted_otp, otp, oob_code, stored_otp,
                 oob_code_to_return>>
  /\ UNCHANGED link_returned
  /\ UNCHANGED updvars

(* ---------------------- verify_otp_and_get_code ----------------------- *)
\* (mutant) a wrong code burns the stored one
VerifyGetOtpBurnsCode(p, e, x, limit) ==
  /\ Arrives(p, limit)
  /\ handler' = [handler EXCEPT ![p] = "verify"]
  /\ email' = [email EXCEPT ![p] = e]
  /\ submitted_otp' = [submitted_otp EXCEPT ![p] = x]
  /\ \/ /\ Logged(p, "get_otp", FALSE)
        /\ Respond(p, HTTP_500_INTERNAL_SERVER_ERROR, "ReadOtpFault", <<>>)
        /\ UNCHANGED <<stored_otp, redis>>
     \/ /\ Logged(p, "get_otp", TRUE)
        /\ stored_otp' = [stored_otp EXCEPT ![p] = Get(redis, OtpKey(e))]
        /\ IF Get(redis, OtpKey(e)) = <<>>
           THEN /\ Respond(p, HTTP_404_NOT_FOUND, "OtpMissing", <<>>)
                /\ UNCHANGED redis
           ELSE IF Get(redis, OtpKey(e)) # x
           THEN /\ Respond(p, HTTP_400_BAD_REQUEST, "OtpMismatch", <<>>)
                /\ redis' = [redis EXCEPT ![OtpKey(e)] = Absent]
           ELSE /\ pc' = [pc EXCEPT ![p] = "get_oob"]
                /\ UNCHANGED <<resp, redis>>
  /\ UNCHANGED <<lastset, outbox, otp, oob_code, oob_code_to_return>>
  /\ UNCHANGED link_returned
  /\ UNCHANGED updvars

\* lines 189-204: the call arrives, reads the code and compares
VerifyGetOtp(p, e, x, limit) ==
  /\ Arrives(p, limit)
  /\ handler' = [handler EXCEPT ![p] = "verify"]
  /\ email' = [email EXCEPT ![p] = e]
  /\ submitted_otp' = [submitted_otp EXCEPT ![p] = x]
  /\ \/ /\ Logged(p, "get_otp", FALSE)
        /\ Respond(p, HTTP_500_INTERNAL_SERVER_ERROR, "ReadOtpFault", <<>>)
        /\ UNCHANGED stored_otp
     \/ /\ Logged(p, "get_otp", TRUE)
        /\ stored_otp' = [stored_otp EXCEPT ![p] = Get(redis, OtpKey(e))]
        /\ IF Get(redis, OtpKey(e)) = <<>>
           THEN Respond(p, HTTP_404_NOT_FOUND, "OtpMissing", <<>>)
           ELSE IF Get(redis, OtpKey(e)) # x
           THEN Respond(p, HTTP_400_BAD_REQUEST, "OtpMismatch", <<>>)
           ELSE /\ pc' = [pc EXCEPT ![p] = "get_oob"]
                /\ UNCHANGED resp
  /\ UNCHANGED <<redis, lastset, outbox, otp, oob_code, oob_code_to_return>>
  /\ UNCHANGED link_returned
  /\ UNCHANGED updvars

\* (mutant) a credential entry found missing makes the call drop the code entry
VerifyGetOobMissingDropsCode(p) ==
  /\ pc[p] = "get_oob"
  /\ \/ /\ Logged(p, "get_oob", FALSE)
        /\ Respond(p, HTTP_500_INTERNAL_SERVER_ERROR, "ReadOobFault", <<>>)
        /\ UNCHANGED <<oob_code_to_return, redis>>
     \/ /\ Logged(p, "get_oob", TRUE)
        /\ oob_code_to_return' =
             [oob_code_to_return EXCEPT ![p] = Get(redis, OobKey(email[p]))]
        /\ IF Get(redis, OobKey(email[p])) = <<>>
           THEN /\ Respond(p, HTTP_500_INTERNAL_SERVER_ERROR, "OobMissing", <<>>)
                /\ redis' = Delete(redis, OtpKey(email[p]))
           ELSE /\ pc' = [pc EXCEPT ![p] = "delete_otp"]
                /\ UNCHANGED <<resp, redis>>
  /\ UNCHANGED <<lastset, outbox, handler, email, submitted_otp, otp, oob_code,
                 stored_otp>>
  /\ UNCHANGED link_returned
  /\ UNCHANGED updvars

\* lines 207-215
VerifyGetOob(p) ==
  /\ pc[p] = "get_oob"
  /\ \/ /\ Logged(p, "get_oob", FALSE)
        /\ Respond(p, HTTP_500_INTERNAL_SERVER_ERROR, "ReadOobFault", <<>>)
        /\ UNCHANGED oob_code_to_return
     \/ /\ Logged(p, "get_oob", TRUE)
        /\ oob_code_to_return' =
             [oob_code_to_return EXCEPT ![p] = Get(redis, OobKey(email[p]))]
        /\ IF Get(redis, OobKey(email[p])) = <<>>
           THEN Respond(p, HTTP_500_INTERNAL_SERVER_ERROR, "OobMissing", <<>>)
           ELSE /\ pc' = [pc EXCEPT ![p] = "delete_otp"]
                /\ UNCHANGED resp
  /\ UNCHANGED <<redis, lastset, outbox, handler, email, submitted_otp, otp, oob_code,
                 stored_otp>>
  /\ UNCHANGED link_returned
  /\ UNCHANGED updvars

\* (mutant) a fault of the cleanup is raised to the caller
VerifyDeleteOtpFaultRaises(p) ==
  /\ pc[p] = "delete_otp"
  /\ \/ /\ redis' = Delete(redis, OtpKey(email[p]))
        /\ Logged(p, "delete_otp", TRUE)
        /\ pc' = [pc EXCEPT ![p] = "delete_oob"]
        /\ UNCHANGED resp
     \/ /\ Logged(p, "delete_otp", FALSE)
        /\ Respond(p, HTTP_500_INTERNAL_SERVER_ERROR, "Unhandled", <<>>)
        /\ UNCHANGED redis
  /\ UNCHANGED <<lastset, outbox, handler, email, submitted_otp, otp, oob_code, stored_otp,
                 oob_code_to_return>>
  /\ UNCHANGED link_returned
  /\ UNCHANGED updvars

\* line 220; when it faults, lines 222-227: line 221 is skipped
VerifyDeleteOtp(p) ==
  /\ pc[p] = "delete_otp"
  /\ \/ /\ redis' = Delete(redis, OtpKey(email[p]))
        /\ Logged(p, "delete_otp", TRUE)
        /\ pc' = [pc EXCEPT ![p] = "delete_oob"]
        /\ UNCHANGED resp
     \/ /\ Logged(p, "delete_otp", FALSE)
        /\ Respond(p, HTTP_200_OK, "Verified", oob_code_to_return[p])
        /\ UNCHANGED redis
  /\ UNCHANGED <<lastset, outbox, handler, email, submitted_otp, otp, oob_code, stored_otp,
                 oob_code_to_return>>
  /\ UNCHANGED link_returned
  /\ UNCHANGED updvars

\* lines 221-227
VerifyDeleteOob(p) ==
  /\ pc[p] = "delete_oob"
  /\ \/ /\ redis' = Delete(redis, OobKey(email[p]))
        /\ Logged(p, "delete_oob", TRUE)
     \/ /\ Logged(p, "delete_oob", FALSE)
        /\ UNCHANGED redis
  /\ Respond(p, HTTP_200_OK, "Verified", oob_code_to_return[p])
  /\ UNCHANGED <<lastset, outbox, handler, email, submitted_otp, otp, oob_code, stored_otp,
                 oob_code_to_return>>
  /\ UNCHANGED link_returned
  /\ UNCHANGED updvars

(* ------------------------------ the clock ----------------------------- *)
\* TickSeconds go by: the entries age, and those whose time is up are gone
Tick ==
  /\ \E k \in Keys : lastset[k].by # 0 /\ lastset[k].age < OTP_EXPIRY_SECONDS
  /\ redis' = Expire(redis, TickSeconds)
  /\ lastset' = [k \in Keys |-> Older(lastset[k], TickSeconds)]
  /\ UNCHANGED <<outbox, pc, handler, email, submitted_otp, otp, oob_code, stored_otp,
                 oob_code_to_return, resp, log>>
  /\ UNCHANGED link_returned
  /\ UNCHANGED updvars

Next ==
  \/ \E p \in Procs, e \in Emails : GetUserByEmail(p, e, MaxInFlight)
  \/ \E p \in Procs : GeneratePasswordResetLink(p)
  \/ \E p \in Procs : SetexOtp(p)
  \/ \E p \in Procs : SetexOob(p)
  \/ \E p \in Procs : SendEmail(p)
  \/ \E p \in Procs : RollbackDeleteOtp(p)
  \/ \E p \in Procs : RollbackDeleteOob(p)
  \/ \E p \in Procs, e \in Emails, x \in SampleCodes : VerifyGetOtp(p, e, x, MaxInFlight)
  \/ \E p \in Procs : VerifyGetOob(p)
  \/ \E p \in Procs : VerifyDeleteOtp(p)
  \/ \E p \in Procs : VerifyDeleteOob(p)
  \/ Tick

Spec == Init /\ [][Next]_vars

\* the runs in which no two calls overlap: a call arrives only when the one
\* before it has been answered
NextSeq ==
  \/ \E p \in Procs, e \in Emails : GetUserByEmail(p, e, 1)
  \/ \E p \in Procs : GeneratePasswordResetLink(p)
  \/ \E p \in Procs : SetexOtp(p)
  \/ \E p \in Procs : SetexOob(p)
  \/ \E p \in Procs : SendEmail(p)
  \/ \E p \in Procs : RollbackDeleteOtp(p)
  \/ \E p \in Procs : RollbackDeleteOob(p)
  \/ \E p \in Procs, e \in Emails, x \in SampleCodes : VerifyGetOtp(p, e, x, 1)
  \/ \E p \in Procs : VerifyGetOob(p)
  \/ \E p \in Procs : VerifyDeleteOtp(p)
  \/ \E p \in Procs : VerifyDeleteOob(p)
  \/ Tick

SpecSeq == Init /\ [][NextSeq]_vars

\* the step that a call in flight takes next: the collaborator call it is
\* waiting for returns or faults
Step(p) ==
  \/ GeneratePasswordResetLink(p)
  \/ SetexOtp(p)
  \/ SetexOob(p)
  \/ SendEmail(p)
  \/ RollbackDeleteOtp(p)
  \/ RollbackDeleteOob(p)
  \/ VerifyGetOob(p)
  \/ VerifyDeleteOtp(p)
  \/ VerifyDeleteOob(p)

\* every collaborator call returns or faults: no call in flight waits for ever
SpecSeqLive == Init /\ [][NextSeq]_vars /\ \A p \in Procs : WF_vars(Step(p))

(* --------------------- update_user_info: the call --------------------- *)
\* lines 288-314: the call arrives and the keyword arguments are built
BuildUpdatePayload(uid, request) ==
  /\ upd_pc = "idle"
  /\ user_uid' = uid
  /\ update_request' = request
  /\ IF PasswordTooShort(request)
     THEN /\ upd_pc' = "done"
          /\ update_resp' = HTTP_400_BAD_REQUEST
          /\ UNCHANGED update_payload
     ELSE /\ update_payload' = UpdatePayload(request)
          /\ IF DOMAIN UpdatePayload(request) = {}
             THEN upd_pc' = "done" /\ update_resp' = HTTP_400_BAD_REQUEST
             ELSE upd_pc' = "update" /\ UNCHANGED update_resp
  /\ UNCHANGED <<update_calls, resetvars>>

\* lines 316-331: auth.update_user returns the record, or raises
\* UserNotFoundError, EmailAlreadyExistsError or something else
UpdateUser ==
  /\ upd_pc = "update"
  /\ update_calls' = Append(update_calls, [uid |-> user_uid, fields |-> update_payload])
  /\ upd_pc' = "done"
  /\ \E st \in {HTTP_200_OK, HTTP_404_NOT_FOUND, HTTP_400_BAD_REQUEST,
                  HTTP_500_INTERNAL_SERVER_ERROR} :
        /\ st = HTTP_400_BAD_REQUEST => "email" \in DOMAIN update_payload
        /\ update_resp' = st
  /\ UNCHANGED <<user_uid, update_request, update_payload, resetvars>>

NextUpdate ==
  \/ \E uid \in Uids, request \in UserUpdateRequests : BuildUpdatePayload(uid, request)
  \/ UpdateUser

SpecUpdate == Init /\ [][NextUpdate]_vars

(* ------------------------- reading the record ------------------------- *)
IsRequest(p) == handler[p] = "request"
IsVerify(p) == handler[p] = "verify"
Answered(p) == pc[p] = "done"
Tried(p, name) == \E i \in 1..Len(log[p]) : log[p][i].op = name
Did(p, name) == \E i \in 1..Len(log[p]) : log[p][i] = Op(name, TRUE)
Faulted(p, name) == \E i \in 1..Len(log[p]) : log[p][i] = Op(name, FALSE)
\* the request call r was answered 200: its code was stored and sent
Stored(r) == IsRequest(r) /\ Answered(r) /\ resp[r].status = HTTP_200_OK
\* no call has arrived after p
Latest(p) == IF p = NumCalls THEN TRUE ELSE pc[p + 1] = "idle"
\* the verify call p arrives in this step for an address and reads the code
\* entry without a fault
VerifyReads(p) ==
  /\ pc[p] = "idle"
  /\ handler'[p] = "verify"
  /\ log'[p] = <<Op("get_otp", TRUE)>>
\* the verify call v is the call after the request call r, for the same
\* address, it submitted the code of r and read that code from the cache
VerifiesRightAfter(r, v) ==
  /\ v = r + 1
  /\ Stored(r)
  /\ IsVerify(v) /\ Answered(v)
  /\ email[v] = email[r]
  /\ submitted_otp[v] = otp[r]
  /\ stored_otp[v] = otp[r]
\* the verify call w is the call after v, for the same address, and its read
\* of the code entry did not fault
VerifiesAgain(v, w) ==
  /\ w = v + 1
  /\ IsVerify(w) /\ Answered(w)
  /\ email[w] = email[v]
  /\ Did(w, "get_otp")

(* =============================== claims =============================== *)

\* C1 (as stated): when calls do not overlap, after a request answered 200
\* that stored code c and credential k, the next call verify(e, c) that
\* reads c before the expiry (its reads not faulting) is answered 200 with
\* oobCode = k, and the verify call after that one is answered 404.
C1_ReleasedExactlyOnce ==
  \A r \in Procs, v \in Procs :
    (VerifiesRightAfter(r, v) /\ ~Faulted(v, "get_oob")) =>
      /\ resp[v].status = HTTP_200_OK
      /\ resp[v].oobCode = oob_code[r]
      /\ \A w \in Procs : VerifiesAgain(v, w) => resp[w].status = HTTP_404_NOT_FOUND

\* C1 (amended): when calls do not overlap, after a request answered 200
\* that stored code c and credential k, the next call verify(e, c) that
\* reads c before the expiry is answered 200 with oobCode = k if its read
\* of the credential finds the entry, and 500 if that read faults or the
\* entry has expired between the two reads; the verify call after a 200 is
\* answered 404 provided the first call's delete of otp_reset:e did not
\* fault.
C1_ReleasedOnceIfCleanupSucceeds ==
  \A r \in Procs, v \in Procs :
    VerifiesRightAfter(r, v) =>
      /\ (Did(v, "get_oob") /\ oob_code_to_return[v] # <<>>) =>
            resp[v].status = HTTP_200_OK /\ resp[v].oobCode = oob_code[r]
      /\ (Did(v, "get_oob") /\ oob_code_to_return[v] = <<>>) =>
            /\ resp[v].status = HTTP_500_INTERNAL_SERVER_ERROR
            /\ Latest(v) => lastset[OobKey(email[v])].age >= OTP_EXPIRY_SECONDS
      /\ Faulted(v, "get_oob") => resp[v].status = HTTP_500_INTERNAL_SERVER_ERROR
      /\ \A w \in Procs :
            (VerifiesAgain(v, w) /\ resp[v].status = HTTP_200_OK /\ Did(v, "delete_otp"))
              => resp[w].status = HTTP_404_NOT_FOUND

\* C1 witness: a request stored c and k, verify(e, c) released k, and the
\* verify call after it, with the same code, was answered 404.
C1_Witness ==
  \E r \in Procs, v \in Procs, w \in Procs :
    /\ VerifiesRightAfter(r, v)
    /\ resp[v].status = HTTP_200_OK /\ resp[v].oobCode = oob_code[r]
    /\ VerifiesAgain(v, w)
    /\ submitted_otp[w] = otp[r]
    /\ resp[w].status = HTTP_404_NOT_FOUND

\* C2: a verify call that reads a stored code different from the submitted
\* one is answered 400 without a credential and leaves the whole cache
\* (values and remaining TTLs) as it was; and a verify call that reads the
\* stored code and submitted that code passes the comparison, whatever was
\* answered to the calls before it (no lockout).
C2_WrongCodeChangesNothing ==
  [][\A p \in Procs :
       VerifyReads(p) =>
         /\ Get(redis, OtpKey(email'[p])) \notin {<<>>, submitted_otp'[p]} =>
              /\ pc'[p] = "done"
              /\ resp'[p].status = HTTP_400_BAD_REQUEST
              /\ resp'[p].oobCode = <<>>
              /\ redis' = redis
         /\ (Get(redis, OtpKey(email'[p])) = submitted_otp'[p]
               /\ submitted_otp'[p] # <<>>) => pc'[p] = "get_oob"]_vars

\* C2 witness: a wrong code was answered 400, the entries are still there,
\* and a later verify call with the right code has passed the comparison.
C2_Witness ==
  \E v \in Procs, w \in Procs :
    /\ v < w
    /\ IsVerify(v) /\ Answered(v) /\ resp[v].status = HTTP_400_BAD_REQUEST
    /\ IsVerify(w) /\ email[w] = email[v] /\ pc[w] = "get_oob"
    /\ redis[OtpKey(email[v])] # Absent /\ redis[OobKey(email[v])] # Absent

\* C3: a verify call that arrives OTP_EXPIRY_SECONDS or more after the last
\* write of otp_reset:e is answered at once, never with 200 or a credential,
\* and with 404 when its read of the cache does not fault, whatever code it
\* submits.
C3_ExpiredCodeNotFound ==
  [][\A p \in Procs, e \in Emails :
       (/\ pc[p] = "idle" /\ handler'[p] = "verify" /\ email'[p] = e
        /\ lastset[OtpKey(e)].by # 0
        /\ lastset[OtpKey(e)].age >= OTP_EXPIRY_SECONDS) =>
         /\ pc'[p] = "done"
         /\ resp'[p].status # HTTP_200_OK
         /\ resp'[p].oobCode = <<>>
         /\ VerifyReads(p) => resp'[p].status = HTTP_404_NOT_FOUND]_vars

\* C3 witness: the code of a request answered 200 was submitted after the
\* expiry and answered 404.
C3_Witness ==
  \E r \in Procs, v \in Procs :
    /\ Stored(r) /\ r < v
    /\ IsVerify(v) /\ Answered(v) /\ email[v] = email[r]
    /\ submitted_otp[v] = otp[r]
    /\ Did(v, "get_otp") /\ resp[v].status = HTTP_404_NOT_FOUND
    /\ lastset[OtpKey(email[r])] = [by |-> r, age |-> OTP_EXPIRY_SECONDS]

\* C4 (as stated): when calls do not overlap, a request call whose email
\* dispatch failed is answered 500 and, as long as no later call has
\* arrived, neither otp_reset:e nor oob_reset:e is in the cache.
C4_RollbackLeavesNoEntry ==
  \A p \in Procs :
    (IsRequest(p) /\ Answered(p) /\ Faulted(p, "send_email") /\ Latest(p)) =>
      /\ resp[p].status = HTTP_500_INTERNAL_SERVER_ERROR
      /\ redis[OtpKey(email[p])] = Absent
      /\ redis[OobKey(email[p])] = Absent

\* C5: the steps of a request call up to the extraction of the token (the
\* lookup, the mint) leave the cache and the sent emails as they are, and a
\* call that ends in them has made no cache call and sent nothing: it is
\* answered 404 when the address has no account, and 500 on any other fault
\* of the lookup and on a failure of the mint or the extraction.
C5_EarlyFailureTouchesNothing ==
  [][\A p \in Procs :
       (handler'[p] = "request" /\ pc[p] \in {"idle", "mint"} /\ pc'[p] # pc[p]) =>
         /\ redis' = redis /\ lastset' = lastset /\ outbox' = outbox
         /\ pc'[p] = "done" =>
              /\ resp'[p].status \in {HTTP_404_NOT_FOUND, HTTP_500_INTERNAL_SERVER_ERROR}
              /\ resp'[p].status = HTTP_404_NOT_FOUND =>
                   pc[p] = "idle" /\ email'[p] \notin Accounts
              /\ pc[p] = "mint" => resp'[p].status = HTTP_500_INTERNAL_SERVER_ERROR
              /\ \A i \in 1..Len(log'[p]) :
                   log'[p][i].op \in {"get_user_by_email", "generate_password_reset_link"}]_vars

\* C5 witness: a request call failed at the mint while the entries stored by
\* an earlier request for the same address are still in the cache.
C5_Witness ==
  \E r \in Procs, p \in Procs :
    /\ Stored(r) /\ r < p
    /\ IsRequest(p) /\ Answered(p) /\ email[p] = email[r]
    /\ resp[p].detail = "MintFault"
    /\ redis[OtpKey(email[r])].val = otp[r]
    /\ redis[OobKey(email[r])].val = oob_code[r]

\* C6: a request call dispatches its email only after its two cache writes,
\* of its code and of its token, have both succeeded, in that order; a call
\* one of whose cache writes faulted is answered 500 and dispatches nothing;
\* every email sent carries the code of a call that had stored both entries.
C6_EmailOnlyAfterBothStored ==
  /\ \A p \in Procs :
       IsRequest(p) =>
         /\ Tried(p, "send_email") =>
              /\ Len(log[p]) >= 5
              /\ SubSeq(log[p], 3, 4) = <<Op("setex_otp", TRUE), Op("setex_oob", TRUE)>>
              /\ log[p][5].op = "send_email"
         /\ (Faulted(p, "setex_otp") \/ Faulted(p, "setex_oob")) =>
              /\ Answered(p)
              /\ resp[p].status = HTTP_500_INTERNAL_SERVER_ERROR
              /\ ~Tried(p, "send_email")
  /\ \A m \in outbox :
       \E p \in Procs :
         /\ IsRequest(p) /\ email[p] = m.to /\ otp[p] = m.otp
         /\ Did(p, "setex_otp") /\ Did(p, "setex_oob") /\ Did(p, "send_email")

\* C6 witness: the second cache write of a call faulted and the call was
\* answered 500 with no email for its address in the outbox.
C6_Witness ==
  \E p \in Procs :
    /\ IsRequest(p) /\ Answered(p)
    /\ Did(p, "setex_otp") /\ Faulted(p, "setex_oob")
    /\ resp[p].status = HTTP_500_INTERNAL_SERVER_ERROR
    /\ \A m \in outbox : m.to # email[p]

\* two request calls for one address were both answered 200, with different
\* codes
BothStored(r1, r2) ==
  /\ r1 # r2
  /\ Stored(r1) /\ Stored(r2)
  /\ email[r1] = email[r2]
  /\ otp[r1] # otp[r2]

\* C7 (as stated): when the request call r2, which arrived after r1, is
\* answered 200 after r1 was answered 200, for the same address and with a
\* different code, the code of r1 is no longer the stored one.
C7_SecondCallWins ==
  [][\A r1 \in Procs, r2 \in Procs :
       (/\ r1 < r2
        /\ Stored(r1)
        /\ IsRequest(r2) /\ email[r2] = email[r1] /\ otp[r2] # otp[r1]
        /\ pc[r2] = "send" /\ pc'[r2] = "done" /\ resp'[r2].status = HTTP_200_OK) =>
         Get(redis', OtpKey(email[r1])) # otp[r1]]_vars

\* C7 (amended): of two request calls for one address that were both answered
\* 200 with different codes, the call whose write of otp_reset:e came last
\* (r2 below: it need not be the call that arrived or was answered second)
\* is the one whose code is verifiable: a verify call that arrives then and
\* reads the cache is answered 400 or 404 for the code of the other call,
\* and passes the comparison for the code of r2 before the expiry, unless a
\* delete of otp_reset:e has removed it.
C7_LastWriteWins ==
  [][\A v \in Procs, r1 \in Procs, r2 \in Procs :
       (/\ VerifyReads(v)
        /\ BothStored(r1, r2)
        /\ email'[v] = email[r1]
        /\ lastset[OtpKey(email[r1])].by = r2) =>
         /\ submitted_otp'[v] = otp[r1] =>
              /\ pc'[v] = "done"
              /\ resp'[v].status \in {HTTP_400_BAD_REQUEST, HTTP_404_NOT_FOUND}
         /\ (/\ submitted_otp'[v] = otp[r2]
             /\ lastset[OtpKey(email[r1])].age < OTP_EXPIRY_SECONDS
             /\ \A u \in Procs : ~(email[u] = email[r1] /\ Did(u, "delete_otp")))
              => pc'[v] = "get_oob"]_vars

\* C7 witness: both calls were answered 200, the write of the call that
\* arrived first came last, and its code was verified with 200.
C7_Witness ==
  \E r1 \in Procs, r2 \in Procs, v \in Procs :
    /\ r1 < r2 /\ r2 < v
    /\ BothStored(r1, r2)
    /\ lastset[OtpKey(email[r1])].by = r1
    /\ IsVerify(v) /\ Answered(v) /\ email[v] = email[r1]
    /\ submitted_otp[v] = otp[r1]
    /\ resp[v].status = HTTP_200_OK

\* the request call p is answered 200 in this step
Returns200(p) ==
  /\ IsRequest(p)
  /\ pc[p] = "send" /\ pc'[p] = "done"
  /\ resp'[p].status = HTTP_200_OK

\* C8 (as stated): when calls do not overlap, at the moment a request call
\* is answered 200 the cache holds otp_reset:e with the code that was sent
\* and oob_reset:e with the extracted token, with the same time to live.
C8_BothEntriesSameExpiry ==
  [][\A p \in Procs :
       Returns200(p) =>
         /\ redis'[OtpKey(email[p])].val = otp[p]
         /\ redis'[OobKey(email[p])].val = oob_code[p]
         /\ redis'[OtpKey(email[p])].ttl = redis'[OobKey(email[p])].ttl]_vars

\* C8 (amended): when calls do not overlap, a request call that is answered
\* 200 has written otp_reset:e with the code that was sent and oob_reset:e
\* with the extracted token, each with OTP_EXPIRY_SECONDS to live from its
\* own write: at that moment each entry is either still there, with that
\* value and with what is left of its time, or has expired already, and
\* oob_reset:e expires no earlier than otp_reset:e (at the same instant only
\* when no time passes between the two writes).
C8_BothEntriesOwnExpiry ==
  [][\A p \in Procs :
       Returns200(p) =>
         LET o == redis'[OtpKey(email[p])]
             b == redis'[OobKey(email[p])]
         IN  /\ Did(p, "setex_otp") /\ Did(p, "setex_oob")
             /\ o # Absent =>
                  /\ o.val = otp[p]
                  /\ o.ttl = OTP_EXPIRY_SECONDS - lastset'[OtpKey(email[p])].age
             /\ b # Absent =>
                  /\ b.val = oob_code[p]
                  /\ b.ttl = OTP_EXPIRY_SECONDS - lastset'[OobKey(email[p])].age
             /\ o.ttl <= b.ttl]_vars

\* C8 witness: a request call was answered 200 and its two entries are in the
\* cache with different times to live.
C8_Witness ==
  \E p \in Procs :
    /\ Stored(p) /\ Latest(p)
    /\ redis[OtpKey(email[p])].val = otp[p]
    /\ redis[OobKey(email[p])].val = oob_code[p]
    /\ redis[OtpKey(email[p])].ttl < redis[OobKey(email[p])].ttl

\* C9: a verify call that has reached its cleanup is answered 200 with the
\* credential it read, whether its deletes fault or not; and every entry in
\* the cache, one left behind by a faulted delete included, has at most what
\* is left of OTP_EXPIRY_SECONDS since its write to live.
C9_CleanupFaultKeepsAnswer ==
  /\ \A v \in Procs :
       (IsVerify(v) /\ Answered(v) /\ Tried(v, "delete_otp")) =>
         /\ resp[v].status = HTTP_200_OK
         /\ resp[v].oobCode = oob_code_to_return[v]
         /\ resp[v].oobCode # <<>>
  /\ \A k \in Keys :
       redis[k] # Absent =>
         /\ redis[k].ttl > 0
         /\ redis[k].ttl + lastset[k].age = OTP_EXPIRY_SECONDS

\* C9 witness: the first delete of a verify call faulted, the call was answered
\* 200 with the credential, and both entries are left behind.
C9_Witness ==
  \E v \in Procs :
    /\ IsVerify(v) /\ Answered(v) /\ Faulted(v, "delete_otp")
    /\ resp[v].status = HTTP_200_OK
    /\ resp[v].oobCode = redis[OobKey(email[v])].val
    /\ redis[OtpKey(email[v])] # Absent

\* C10 (as stated): no verify call is answered 500 for a credential entry
\* that is missing after its code has matched.
C10_MissingCredentialUnreachable ==
  \A p \in Procs : ~(IsVerify(p) /\ Answered(p) /\ resp[p].detail = "OobMissing")

\* the last collaborator call in the record l of a call
LastOp(l) == l[Len(l)]
\* the verify call p ends in this step at one of its two reads
VerifyEndsAtRead(p) ==
  /\ handler'[p] = "verify"
  /\ pc[p] \in {"idle", "get_oob"}
  /\ pc'[p] = "done"

\* C11: a verify call that ends at one of its reads leaves the cache as it
\* was: a fault on the read of the code is answered 500, a missing code entry
\* 404, a fault on the read of the credential 500, and a missing credential
\* entry after a matching code 500; no entry is deleted, so in the last case
\* otp_reset:e is still stored.
C11_VerifyFailsFast ==
  [][\A p \in Procs :
       VerifyEndsAtRead(p) =>
         /\ redis' = redis
         /\ LastOp(log'[p]) = Op("get_otp", FALSE) =>
               resp'[p].status = HTTP_500_INTERNAL_SERVER_ERROR
         /\ (LastOp(log'[p]) = Op("get_otp", TRUE)
               /\ redis[OtpKey(email'[p])] = Absent) =>
               resp'[p].status = HTTP_404_NOT_FOUND
         /\ LastOp(log'[p]) = Op("get_oob", FALSE) =>
               resp'[p].status = HTTP_500_INTERNAL_SERVER_ERROR
         /\ (LastOp(log'[p]) = Op("get_oob", TRUE)
               /\ redis[OobKey(email[p])] = Absent) =>
               /\ stored_otp[p] = submitted_otp[p]
               /\ resp'[p].status = HTTP_500_INTERNAL_SERVER_ERROR
               /\ redis'[OtpKey(email[p])] = redis[OtpKey(email[p])]
         /\ resp'[p].status \in {HTTP_400_BAD_REQUEST, HTTP_404_NOT_FOUND,
                                  HTTP_500_INTERNAL_SERVER_ERROR}
         /\ resp'[p].oobCode = <<>>]_vars

\* C11 witness: a verify call whose code matched found the credential entry
\* missing, was answered 500, and the code entry is still stored.
C11_Witness ==
  \E v \in Procs :
    /\ IsVerify(v) /\ Answered(v)
    /\ LastOp(log[v]) = Op("get_oob", TRUE)
    /\ oob_code_to_return[v] = <<>>
    /\ resp[v].status = HTTP_500_INTERNAL_SERVER_ERROR
    /\ redis[OtpKey(email[v])] # Absent
    /\ redis[OtpKey(email[v])].val = submitted_otp[v]

\* the value of the parameter oobCode of a link: what stands between the
\* first "oobCode=" and the "&" that follows it, or the end of the link;
\* <<>> when the link has no such parameter
NamePositions(link) ==
  { i \in 1..Len(link) :
      /\ i + Len(OobParam) - 1 <= Len(link)
      /\ \A j \in 1..Len(OobParam) : link[i + j - 1] = OobParam[j] }
OobCodeValue(link) ==
  IF NamePositions(link) = {} THEN <<>>
  ELSE LET first == CHOOSE i \in NamePositions(link) :
                      \A j \in NamePositions(link) : i <= j
           from == first + Len(OobParam)
           stops == { n \in from..(Len(link) + 1) :
                        n = Len(link) + 1 \/ link[n] = "&" }
           stop == CHOOSE n \in stops : \A m \in stops : n <= m
       IN  [i \in 1..(stop - from) |-> link[from + i - 1]]
\* the identity provider returns a link to the request call p in this step
LinkReturned(p) ==
  /\ pc[p] = "mint"
  /\ LastOp(log'[p]) = Op("generate_password_reset_link", TRUE)

\* C12: for every link the identity provider returns, the request call takes
\* as credential the value of the link's oobCode parameter (from just after
\* the name to the next "&" or the end of the link), keeps it unchanged, and
\* stores that value under oob_reset:e; a link without the parameter, or with
\* an empty value, is answered 500 with no cache write and no email.
C12_StoredCredentialIsLinkValue ==
  [][\A p \in Procs :
       /\ LinkReturned(p) =>
            /\ link_returned'[p] \in Links(p)
            /\ IF OobCodeValue(link_returned'[p]) # <<>>
               THEN /\ oob_code'[p] = OobCodeValue(link_returned'[p])
                    /\ pc'[p] = "setex_otp"
               ELSE /\ pc'[p] = "done"
                    /\ resp'[p].status = HTTP_500_INTERNAL_SERVER_ERROR
                    /\ redis' = redis
                    /\ outbox' = outbox
       /\ pc[p] \notin {"idle", "mint"} => oob_code'[p] = oob_code[p]
       /\ (pc[p] = "setex_oob" /\ pc'[p] = "send") =>
            redis'[OobKey(email[p])].val = oob_code[p]]_vars

\* C12 witness: a request call was returned a link that ends with the token
\* and holds the token as its credential; another one has stored the token it
\* took from its link.
C12_Witness ==
  \E p \in Procs, q \in Procs :
    /\ pc[p] = "setex_otp"
    /\ link_returned[p] = <<"?", "l", "&">> \o OobParam \o Token(p)
    /\ oob_code[p] = Token(p)
    /\ Stored(q)
    /\ lastset[OobKey(email[q])].by = q
    /\ redis[OobKey(email[q])].val = Token(q)

\* the number of times the call p has made the collaborator call `name`
Count(p, name) == Cardinality({ i \in 1..Len(log[p]) : log[p][i].op = name })
RequestOps == {"get_user_by_email", "generate_password_reset_link", "setex_otp",
               "setex_oob", "send_email", "delete_otp", "delete_oob"}
VerifyOps == {"get_otp", "get_oob", "delete_otp", "delete_oob"}
\* no call makes a collaborator call twice, or one that is not of its handler
NoStepRetried ==
  \A p \in Procs :
    /\ IsRequest(p) => \A i \in 1..Len(log[p]) : log[p][i].op \in RequestOps
    /\ IsVerify(p) => \A i \in 1..Len(log[p]) : log[p][i].op \in VerifyOps
    /\ \A name \in RequestOps \cup VerifyOps : Count(p, name) <= 1

\* C13: no step is retried: a request call makes at most one identity lookup,
\* one mint, one write per cache key and one email dispatch (and one
\* compensating delete per key), a verify call at most one read and one
\* delete per cache key; and, every collaborator call returning or faulting,
\* every call that has arrived is in the end answered.
C13_NoRetryAndEveryCallEnds ==
  /\ []NoStepRetried
  /\ \A p \in Procs : (pc[p] # "idle") ~> (pc[p] = "done" /\ resp[p].status # 0)

\* C13 witness: a request call went through every step of its handler, the
\* compensation included, and a verify call through every step of its own;
\* both are answered.
C13_Witness ==
  \E r \in Procs, v \in Procs :
    /\ IsRequest(r) /\ Answered(r)
    /\ \A name \in RequestOps : Count(r, name) = 1
    /\ IsVerify(v) /\ Answered(v)
    /\ \A name \in VerifyOps : Count(v, name) = 1

\* the fields a request gives, under the names auth.update_user knows them by
KeywordOf ==
  [ displayName |-> "display_name", email |-> "email", password |-> "password",
    photoURL |-> "photo_url", disabled |-> "disabled",
    emailVerified |-> "email_verified" ]
Given(request) ==
  { KeywordOf[f] : f \in { g \in DOMAIN request : Len(request[g]) = 1 } }
\* the request gives no field, or a password of fewer than 6 characters
Refused(request) ==
  \/ \A f \in DOMAIN request : request[f] = <<>>
  \/ /\ request.password # <<>>
     /\ Len(request.password[1]) < PasswordMinLength

\* C14: update_user_info answers 400 without calling auth.update_user when
\* the request gives no field at all or a password of fewer than 6
\* characters; otherwise it calls auth.update_user exactly once, for the
\* user of the path, with exactly the fields that were given (not None) and
\* their values.
C14_UpdatesExactlyTheGivenFields ==
  upd_pc # "idle" =>
    IF Refused(update_request)
    THEN /\ upd_pc = "done"
         /\ update_resp = HTTP_400_BAD_REQUEST
         /\ update_calls = <<>>
    ELSE /\ upd_pc = "update" => update_calls = <<>>
         /\ upd_pc = "done" =>
              /\ Len(update_calls) = 1
              /\ update_calls[1].uid = user_uid
              /\ DOMAIN update_calls[1].fields = Given(update_request)
              /\ \A f \in DOMAIN update_request :
                    Len(update_request[f]) = 1 =>
                      update_calls[1].fields[KeywordOf[f]] =
                        IF f = "photoURL" THEN update_request[f][1].url
                        ELSE update_request[f][1]

\* C14 witness: a request that gives an empty display name and disabled =
\* false, and nothing else, was passed on in one call with these two fields.
C14_Witness ==
  /\ upd_pc = "done"
  /\ update_resp = HTTP_200_OK
  /\ update_request.displayName = Some("")
  /\ update_request.disabled = Some(FALSE)
  /\ Len(update_calls) = 1
  /\ DOMAIN update_calls[1].fields = {"display_name", "disabled"}

\* the request call p makes one of its two compensating deletes in this step
Compensates(p) ==
  /\ IsRequest(p)
  /\ pc[p] \in {"rollback_otp", "rollback_oob"}
  /\ pc'[p] # pc[p]

\* C15 (as stated): the compensation of a request call whose email failed
\* removes only what that call wrote: an entry written last by another
\* request call for the same address that was answered 200 is left as it is.
C15_CompensationSparesDeliveredCode ==
  [][\A p \in Procs, q \in Procs :
       (Compensates(p) /\ q # p /\ Stored(q) /\ email[q] = email[p]) =>
         \A k \in {OtpKey(email[p]), OobKey(email[p])} :
           (lastset[k].by = q /\ redis[k] # Absent) => redis'[k] = redis[k]]_vars

\* every request call for the address e so far was answered 200
AllStored(e) ==
  \A r \in Procs : (IsRequest(r) /\ email[r] = e) => Stored(r)

\* C16 (as stated): the credential that a verify call returns was minted by
\* the request call that generated the code its submitted code was matched
\* against (here: also when every request call for the address was answered
\* 200, so that no write was left half done by a fault).
C16_CodeReleasesOwnCredential ==
  \A v \in Procs :
    (IsVerify(v) /\ Answered(v) /\ resp[v].status = HTTP_200_OK
       /\ AllStored(email[v])) =>
      \E r \in Procs :
        /\ IsRequest(r) /\ email[r] = email[v]
        /\ otp[r] = stored_otp[v]
        /\ oob_code[r] = resp[v].oobCode

\* C17 (as stated): the credential of a request call is returned by at most
\* one verify call (here: also when no delete of either verify call
\* faulted, so that the first one to finish did consume the entries).
C17_CredentialReleasedOnce ==
  \A v \in Procs, w \in Procs :
    (/\ v # w
     /\ IsVerify(v) /\ Answered(v) /\ resp[v].status = HTTP_200_OK
     /\ IsVerify(w) /\ Answered(w) /\ resp[w].status = HTTP_200_OK
     /\ ~Faulted(v, "delete_otp") /\ ~Faulted(v, "delete_oob")
     /\ ~Faulted(w, "delete_otp") /\ ~Faulted(w, "delete_oob")) =>
      resp[v].oobCode # resp[w].oobCode
====
